---------------------------- MODULE Spec2Model ----------------------------
(***************************************************************************)
(* Model of src/app.py: the Streamlit script that runs a YOLO detector on  *)
(* each uploaded MRI image, annotates a copy of the image, lists the tumor *)
(* categories found and offers the annotated image for download.           *)
(*                                                                         *)
(* Conventions                                                             *)
(*  - a Python str is a sequence of one-character strings;                 *)
(*  - a numpy buffer is a record [h, w, px] with px[<<x, y>>] a triple of  *)
(*    channel values, x in 0..w-1 and y in 0..h-1; buffers live in `heap`  *)
(*    and the program's variables hold references (indices) into it, so    *)
(*    that aliasing is visible;                                            *)
(*  - a box coordinate of the detector is a float, given here in tenths of *)
(*    a pixel; a confidence is a float in [0,1], given in units of 10^-5.  *)
(***************************************************************************)
EXTENDS Integers, Sequences, FiniteSets, TLC

(* ------------------------------ bounds -------------------------------- *)

\* Largest number of files in one upload.
MaxBatch == 2

\* Largest number of detections the detector returns for one image.
MaxDets == 3

\* Height and width of the larger test image, in pixels.
ImgH == 12

ImgW == 4

\* Last second of the wall clock the run may read.
MaxClock == 1

(* ------------------------- Python str methods ------------------------- *)

UpperAZ == <<"A","B","C","D","E","F","G","H","I","J","K","L","M",
             "N","O","P","Q","R","S","T","U","V","W","X","Y","Z">>

LowerAZ == <<"a","b","c","d","e","f","g","h","i","j","k","l","m",
             "n","o","p","q","r","s","t","u","v","w","x","y","z">>

\* The case mappings of the cased characters, as tables.
CaseLower ==
    [c \in {UpperAZ[k] : k \in 1..26} |->
        LowerAZ[CHOOSE k \in 1..26 : UpperAZ[k] = c]]

CaseUpper ==
    [c \in {LowerAZ[k] : k \in 1..26} |->
        UpperAZ[CHOOSE k \in 1..26 : LowerAZ[k] = c]]

IsUpper(c) == c \in DOMAIN CaseLower

IsLower(c) == c \in DOMAIN CaseUpper

IsCased(c) == IsUpper(c) \/ IsLower(c)

LowerChar(c) == IF IsUpper(c) THEN CaseLower[c] ELSE c

UpperChar(c) == IF IsLower(c) THEN CaseUpper[c] ELSE c

\* str.lower(): every cased character lower-cased, nothing removed.
lower(s) == [k \in 1..Len(s) |-> LowerChar(s[k])]

\* str.title(): a cased character is upper-cased when the character before
\* it is not cased (or it is the first), lower-cased otherwise.
title(s) ==
    [k \in 1..Len(s) |->
        IF k = 1 \/ ~IsCased(s[k-1]) THEN UpperChar(s[k]) ELSE LowerChar(s[k])]

\* Decimal digits of a natural number, as a str.
DigitChars == <<"0","1","2","3","4","5","6","7","8","9">>

RECURSIVE NatStr(_)
NatStr(v) == IF v < 10 THEN <<DigitChars[v + 1]>>
             ELSE NatStr(v \div 10) \o <<DigitChars[(v % 10) + 1]>>

\* int(x) of a float x >= or < 0 given in tenths: truncation toward zero.
TruncInt(v) == IF v >= 0 THEN v \div 10 ELSE -((-v) \div 10)

\* round(float(conf) * 100, 2) for conf in units of 10^-5: the percentage in
\* hundredths of a percent. (The pool below holds no exact tie, which the
\* binary float would decide.)
RoundPercent(conf) == (conf + 5) \div 10

\* str() of the float h/100 as an f-string prints it: the shortest repr,
\* with at least one fractional digit ("90.0", "87.3", "87.34").
FloatStr(h) ==
    NatStr(h \div 100) \o <<".">> \o
    (IF h % 10 = 0 THEN <<DigitChars[((h % 100) \div 10) + 1]>>
     ELSE <<DigitChars[((h % 100) \div 10) + 1], DigitChars[(h % 10) + 1]>>)

\* f"{class_name} ({confidence}%)"
LabelText(class_name, confidence) ==
    class_name \o <<" ", "(">> \o FloatStr(confidence) \o <<"%", ")">>

(* ------------------------- module-level tables ------------------------ *)

\* TUMOR_INFO: category -> markdown text.
TUMOR_INFO ==
    (<<"g","l","i","o","m","a">> :>
        "**Glioma** is a common type of tumor that originates from glial cells in the brain or spine. Gliomas can be low-grade (slow-growing) or high-grade (aggressive). Symptoms depend on the tumor's location and may include headaches, seizures, or changes in personality. Treatment often involves surgery, radiation therapy, and chemotherapy.") @@
    (<<"m","e","n","i","n","g","i","o","m","a">> :>
        "**Meningioma** is a tumor that arises from the meninges, the membranes that cover the brain and spinal cord. Most meningiomas are benign, but their location in the brain can still cause serious health problems. Common symptoms include headaches, vision problems, or seizures. Treatment may involve surgical removal or observation in non-symptomatic cases.") @@
    (<<"p","i","t","u","i","t","a","r","y">> :>
        "**Pituitary tumors** form in the pituitary gland, which controls several hormone-producing glands in the body. These tumors may cause hormonal imbalances affecting growth, metabolism, and reproductive functions. Treatment may include medication, hormone therapy, or surgery.") @@
    (<<"t","u","m","o","r">> :>
        "**Brain Tumor** is a general term for abnormal growths of cells in the brain. Tumors can be benign (non-cancerous) or malignant (cancerous). They can affect brain function depending on their size and location. Common treatments include surgery, radiation, and chemotherapy.")

\* The fixed text of the fallback branch, after the bold title.
SoonText == ": Additional information will be added soon."

\* A markdown text is a sequence of fragments (strings); a str of the model
\* contributes one fragment per character.
Bold == "**"

\* The label tables (model.names, class id -> name) the run may be given:
\* they belong to the detector's weights file, which is outside the source.
LabelTables ==
    { [c \in 0..2 |-> <<<<"G","l","i","o","m","a">>, <<"g","l","i","o","m","a"," ">>, <<"G","L","I","O","M","A">>>>[c + 1]],
      [c \in 0..3 |-> <<<<"G","l","i","o","m","a">>, <<"M","e","n","i","n","g","i","o","m","a">>, <<"N","o"," ","T","u","m","o","r">>, <<"P","i","t","u","i","t","a","r","y">>>>[c + 1]],
      [c \in 0..1 |-> <<<<"t","u","m","o","r">>, <<"u","n","k","n","o","w","n","_","x">>>>[c + 1]] }

(* ------------------------------ inputs -------------------------------- *)

\* The uploaded files: two decodable images (a greyscale one, mode "L", and
\* a shorter colour one, mode "RGB") and one whose bytes are no image.
\* px gives the stored channel values of pixel <<x, y>>.
UploadPool ==
    { [ok |-> TRUE, mode |-> "L", h |-> ImgH, w |-> ImgW,
       px |-> [p \in (0..ImgW-1) \X (0..ImgH-1) |->
                  <<IF (p[1] + p[2]) % 2 = 0 THEN 40 ELSE 90>>]],
      [ok |-> TRUE, mode |-> "RGB", h |-> ImgH \div 2, w |-> ImgW,
       px |-> [p \in (0..ImgW-1) \X (0..(ImgH \div 2)-1) |-> <<200, 100, 50>>]],
      [ok |-> FALSE, mode |-> "", h |-> 0, w |-> 0, px |-> <<>>] }

\* The detections the detector may return (result.boxes.xyxy / .cls /
\* .conf): box in tenths of a pixel, class id, confidence in units of 10^-5.
DetPool ==
    { [box |-> <<5, 105, 38, 119>>, cls |-> 0, conf |-> 87340],
      [box |-> <<12, 7, 39, 45>>,   cls |-> 1, conf |-> 90000],
      [box |-> <<0, 20, 25, 50>>,   cls |-> 2, conf |-> 30000],
      [box |-> <<0, 20, 25, 50>>,   cls |-> 3, conf |-> 87346] }

\* The slider's values tried: its default 0.25, and 0.88 (units of 10^-5).
Thresholds == {25000, 88000}

\* All sequences over S of length at most k.
RECURSIVE SeqsUpTo(_, _)
SeqsUpTo(S, k) ==
    IF k = 0 THEN {<<>>}
    ELSE LET shorter == SeqsUpTo(S, k - 1)
         IN  shorter \cup {Append(s, e) : s \in shorter, e \in S}

\* What model(img_np, conf=threshold) may return for an image of h x w
\* pixels: detections above the threshold whose box lies in the image.
ModelOutputs(h, w, thr) ==
    SeqsUpTo({d \in DetPool : /\ d.conf > thr
                              /\ d.box[3] <= w * 10
                              /\ d.box[4] <= h * 10}, MaxDets)

(* --------------------------- pixel buffers ---------------------------- *)

\* Image.open(f).convert('RGB'): a grey value becomes three equal channels.
ConvertRGB(f) ==
    [h |-> f.h, w |-> f.w,
     px |-> [p \in DOMAIN f.px |->
                IF f.mode = "L" THEN <<f.px[p][1], f.px[p][1], f.px[p][1]>>
                ELSE f.px[p]]]

\* Thickness argument of cv2.rectangle.
Thickness == 2

\* Vertical offset of the label's origin above the box's top edge.
LabelOffset == 10

RectColor == <<255, 0, 0>>

TextColor == <<255, 255, 255>>

\* The pixels cv2.rectangle paints: the band of Thickness \div 2 pixels on
\* either side of the outline, clipped to the canvas by DOMAIN.
OnOutline(p, x1, y1, x2, y2) ==
    LET t == Thickness \div 2
    IN  /\ p[1] >= x1 - t /\ p[1] <= x2 + t
        /\ p[2] >= y1 - t /\ p[2] <= y2 + t
        /\ ~ (/\ p[1] > x1 + t /\ p[1] < x2 - t
              /\ p[2] > y1 + t /\ p[2] < y2 - t)

\* cv2.rectangle(buf, (x1, y1), (x2, y2), color, Thickness), in place.
rectangle(buf, x1, y1, x2, y2, color) ==
    [buf EXCEPT !.px = [p \in DOMAIN buf.px |->
        IF OnOutline(p, x1, y1, x2, y2) THEN color ELSE buf.px[p]]]

\* cv2.putText(buf, text, org, font, scale, color, 2), in place. The glyphs'
\* raster is abstracted to its origin pixel, painted when it is on the
\* canvas (OpenCV clips what falls outside and never raises for it).
putText(buf, org, color) ==
    [buf EXCEPT !.px = [p \in DOMAIN buf.px |->
        IF p = org THEN color ELSE buf.px[p]]]

\* cv2.cvtColor(buf, cv2.COLOR_RGB2BGR): channels 0 and 2 exchanged.
cvtColor(buf) ==
    [buf EXCEPT !.px = [p \in DOMAIN buf.px |->
        <<buf.px[p][3], buf.px[p][2], buf.px[p][1]>>]]

\* The OpenCV JPEG writer (cv2.imencode / cv2.imwrite): it reads channel 0
\* as blue and channel 2 as red. The artifact is represented by the RGB
\* picture a decoder gets back from it (quantisation loss left out).
JpegOfBGR(buf) ==
    [format |-> "jpg", h |-> buf.h, w |-> buf.w,
     rgb |-> [p \in DOMAIN buf.px |->
                 <<buf.px[p][3], buf.px[p][2], buf.px[p][1]>>]]

\* What st.image(array) shows: channel 0 as red, channel 2 as blue.
Shown(buf) == [h |-> buf.h, w |-> buf.w, rgb |-> buf.px]

\* save_image: RGB -> BGR, then the OpenCV writer (the temp file's content).
save_image(image_array) == JpegOfBGR(cvtColor(image_array))

(* ------------------------ annotate_and_extract ------------------------ *)

\* A copy that is no copy: `annotated_img = image_np`, the same buffer.
np_copy_alias(hp, ref) == [heap |-> hp, ref |-> ref]

\* image_np.copy(): a new buffer with the same content; the reference to it.
np_copy(hp, ref) == [heap |-> Append(hp, hp[ref]), ref |-> Len(hp) + 1]

\* An assignment in place of the add: only the last category is kept.
AddClass_overwrite(found, class_name) == {class_name}

\* found_classes.add(class_name)
AddClass(found, class_name) == found \cup {class_name}

\* One pass of the inner loop body for detection d on the state acc =
\* [raised, buf, found, drawn]; model.names[class_id] raises KeyError for a
\* class id that is no key of the table, which ends the function.
AnnotateStep(nm, acc, d) ==
    LET x1 == TruncInt(d.box[1])
        y1 == TruncInt(d.box[2])
        x2 == TruncInt(d.box[3])
        y2 == TruncInt(d.box[4])
        class_id == d.cls
    IN  IF acc.raised \/ class_id \notin DOMAIN nm
        THEN [acc EXCEPT !.raised = TRUE]
        ELSE LET class_name == lower(nm[class_id])
                 confidence == RoundPercent(d.conf)
                 label      == LabelText(class_name, confidence)
                 org        == <<x1, y1 - LabelOffset>>
                 boxed      == rectangle(acc.buf, x1, y1, x2, y2, RectColor)
             IN  [raised |-> FALSE,
                  buf    |-> putText(boxed, org, TextColor),
                  found  |-> AddClass(acc.found, class_name),
                  drawn  |-> Append(acc.drawn,
                                [label |-> label, org |-> org,
                                 rect |-> <<x1, y1, x2, y2>>])]

\* The loop over the detections, in their order.
RECURSIVE AnnotateLoop(_, _, _)
AnnotateLoop(nm, acc, dets) ==
    IF dets = <<>> THEN acc
    ELSE AnnotateLoop(nm, AnnotateStep(nm, acc, Head(dets)), Tail(dets))

\* The function's body after the copy, on the copy's content.
AnnotateBody(nm, buf, dets) ==
    AnnotateLoop(nm, [raised |-> FALSE, buf |-> buf, found |-> {},
                      drawn |-> <<>>], dets)

\* list(found_classes): the elements of the set in the set's iteration
\* order, which Python leaves to the strings' (per-process randomised)
\* hashes and the insertion history: any order of the elements.
ListOfSet(S) ==
    {s \in [1..Cardinality(S) -> S] : \A a, b \in 1..Cardinality(S) :
                                          a # b => s[a] # s[b]}

(* ------------------------- tumor information -------------------------- *)

InfoHeader == <<"### Tumor Information">>

\* The text shown for one category: the table's entry, else the fallback.
describe(tumor_type) ==
    IF tumor_type \in DOMAIN TUMOR_INFO
    THEN <<TUMOR_INFO[tumor_type]>>
    ELSE <<Bold>> \o title(tumor_type) \o <<Bold, SoonText>>


\* The st.markdown calls of the `if found_classes:` block, in order.
TumorInformationMarkdown(found) ==
    IF found # <<>>
    THEN <<InfoHeader>> \o [k \in 1..Len(found) |-> describe(found[k])]
    ELSE <<>>

(* ------------------------------- state -------------------------------- *)

VARIABLES
    names,            \* model.names, the detector's label table
    threshold,        \* the sidebar slider's value
    n,                \* len(uploaded_files)
    i,                \* files of the upload whose iteration has completed
    pc,               \* the script's position
    error,            \* the uncaught exception that stopped the script
    file,             \* uploaded_file of the current iteration
    heap,             \* the pixel buffers alive in the current iteration
    image,            \* reference: the PIL image
    img_np,           \* reference: np.array(image)
    results,          \* the detector's output for img_np
    annotated_img,    \* reference: the buffer annotate_and_extract returned
    found_classes,    \* the list annotate_and_extract returned
    drawn,            \* the rectangle/putText calls made on annotated_img
    shown_original,   \* st.image(image, ...) of the current iteration
    shown_annotated,  \* st.image(annotated_img, ...) of the current iteration
    info,             \* the st.markdown texts of the current iteration
    download,         \* the download button's data of the current iteration
    rendered,         \* files (by position) whose download button is on the page
    now,              \* the last reading of the wall clock, in seconds
    button_ids        \* the element ids of the download buttons on the page

vars == <<names, threshold, n, i, pc, error, file, heap, image, img_np,
          results, annotated_img, found_classes, drawn, shown_original,
          shown_annotated, info, download, rendered, now, button_ids>>

NoFile == [ok |-> FALSE, mode |-> "", h |-> 0, w |-> 0, px |-> <<>>]

NoPicture == [h |-> 0, w |-> 0, rgb |-> <<>>]

NoArtifact == [format |-> "", h |-> 0, w |-> 0, rgb |-> <<>>]

Init ==
    /\ names \in LabelTables
    /\ threshold \in Thresholds
    /\ n \in 0..MaxBatch
    /\ i = 0
    /\ pc = "start"
    /\ error = ""
    /\ file = NoFile
    /\ heap = <<>>
    /\ image = 0
    /\ img_np = 0
    /\ results = <<>>
    /\ annotated_img = 0
    /\ found_classes = <<>>
    /\ drawn = <<>>
    /\ shown_original = NoPicture
    /\ shown_annotated = NoPicture
    /\ info = <<>>
    /\ download = NoArtifact
    /\ rendered = {}
    /\ now = 0
    /\ button_ids = {}

\* What every iteration starts from: the loop's names are not yet rebound
\* and nothing of this file is on the page. (The values the names still hold
\* from the previous iteration are dead: each is assigned before it is read.)
FreshIteration ==
    /\ results' = <<>>
    /\ annotated_img' = 0
    /\ found_classes' = <<>>
    /\ drawn' = <<>>
    /\ shown_original' = NoPicture
    /\ shown_annotated' = NoPicture
    /\ info' = <<>>
    /\ download' = NoArtifact

\* `if uploaded_files:` taken: st.subheader("Results"), then the loop.
BeginResults ==
    /\ pc = "start"
    /\ n > 0
    /\ pc' = "open"
    /\ UNCHANGED <<names, threshold, n, i, error, file, heap, image, img_np,
                   results, annotated_img, found_classes, drawn,
                   shown_original, shown_annotated, info, download, rendered,
                   now, button_ids>>

\* `else:` st.info("Upload one or more MRI images ...").
NoUpload ==
    /\ pc = "start"
    /\ n = 0
    /\ pc' = "done"
    /\ UNCHANGED <<names, threshold, n, i, error, file, heap, image, img_np,
                   results, annotated_img, found_classes, drawn,
                   shown_original, shown_annotated, info, download, rendered,
                   now, button_ids>>

\* Image.open(uploaded_file).convert('RGB'); img_np = np.array(image).
OpenImage ==
    /\ pc = "open"
    /\ \E f \in UploadPool :
          /\ f.ok
          /\ file' = f
          /\ heap' = <<ConvertRGB(f), ConvertRGB(f)>>
    /\ image' = 1
    /\ img_np' = 2
    /\ FreshIteration
    /\ pc' = "detect"
    /\ UNCHANGED <<names, threshold, n, i, error, rendered,
                   now, button_ids>>

\* Image.open raises (PIL.UnidentifiedImageError) on bytes that are no
\* image; nothing catches it, so the script run ends there.
OpenRaises ==
    /\ pc = "open"
    /\ \E f \in UploadPool :
          /\ ~f.ok
          /\ file' = f
    /\ heap' = <<>>
    /\ image' = 0
    /\ img_np' = 0
    /\ FreshIteration
    /\ pc' = "crashed"
    /\ error' = "UnidentifiedImageError"
    /\ UNCHANGED <<names, threshold, n, i, rendered,
                   now, button_ids>>

\* results = model(img_np, conf=threshold)
Detect ==
    /\ pc = "detect"
    /\ results' \in ModelOutputs(heap[img_np].h, heap[img_np].w, threshold)
    /\ pc' = "annotate"
    /\ UNCHANGED <<names, threshold, n, i, error, file, heap, image, img_np,
                   annotated_img, found_classes, drawn, shown_original,
                   shown_annotated, info, download, rendered,
                   now, button_ids>>

\* annotated_img, found_classes = annotate_and_extract(img_np, results)
Annotate ==
    /\ pc = "annotate"
    /\ LET c == np_copy(heap, img_np)
           r == AnnotateBody(names, c.heap[c.ref], results)
       IN  /\ ~r.raised
           /\ heap' = [c.heap EXCEPT ![c.ref] = r.buf]
           /\ annotated_img' = c.ref
           /\ drawn' = r.drawn
           /\ found_classes' \in ListOfSet(r.found)
    /\ pc' = "display"
    /\ UNCHANGED <<names, threshold, n, i, error, file, image, img_np,
                   results, shown_original, shown_annotated, info, download,
                   rendered,
                   now, button_ids>>

\* The same call when model.names[class_id] raises KeyError: the function's
\* locals are lost and nothing catches the exception.
AnnotateRaises ==
    /\ pc = "annotate"
    /\ LET c == np_copy(heap, img_np)
           r == AnnotateBody(names, c.heap[c.ref], results)
       IN  r.raised
    /\ pc' = "crashed"
    /\ error' = "KeyError"
    /\ UNCHANGED <<names, threshold, n, i, file, heap, image, img_np, results,
                   annotated_img, found_classes, drawn, shown_original,
                   shown_annotated, info, download, rendered,
                   now, button_ids>>

\* The two columns: st.image(image, ...) and st.image(annotated_img, ...).
Display ==
    /\ pc = "display"
    /\ shown_original' = Shown(heap[image])
    /\ shown_annotated' = Shown(heap[annotated_img])
    /\ pc' = "info"
    /\ UNCHANGED <<names, threshold, n, i, error, file, heap, image, img_np,
                   results, annotated_img, found_classes, drawn, info,
                   download, rendered,
                   now, button_ids>>

\* The `if found_classes:` block.
TumorInformation ==
    /\ pc = "info"
    /\ info' = TumorInformationMarkdown(found_classes)
    /\ pc' = "download"
    /\ UNCHANGED <<names, threshold, n, i, error, file, heap, image, img_np,
                   results, annotated_img, found_classes, drawn,
                   shown_original, shown_annotated, download, rendered,
                   now, button_ids>>

\* data = cv2.imencode(".jpg", annotated_img)[1].tobytes()
DownloadData(buf) == JpegOfBGR(buf)

\* f"tumor_result_{datetime.now().strftime('%Y%m%d_%H%M%S')}.jpg" for the
\* clock reading t: the name changes once a second.
FileName(t) == <<"tumor_result_", t, ".jpg">>

\* The id Streamlit gives the button: no key is passed, so it derives from
\* the element's arguments other than the data, of which only file_name
\* differs between two iterations. (The label's leading emoji is left out.)
ButtonId(file_name) ==
    [label |-> "Download Annotated Image", file_name |-> file_name,
     mime |-> "image/jpeg"]

\* The readings datetime.now() may give: the clock does not run backwards.
ClockReadings == now..MaxClock

\* st.download_button(...), which ends the iteration: the loop goes on to
\* the next file, or the script leaves the loop.
Download ==
    /\ pc = "download"
    /\ \E t \in ClockReadings :
          /\ ButtonId(FileName(t)) \notin button_ids
          /\ now' = t
          /\ button_ids' = button_ids \cup {ButtonId(FileName(t))}
    /\ download' = DownloadData(heap[annotated_img])
    /\ rendered' = rendered \cup {i + 1}
    /\ i' = i + 1
    /\ pc' = IF i + 1 < n THEN "open" ELSE "done"
    /\ UNCHANGED <<names, threshold, n, error, file, heap, image, img_np,
                   results, annotated_img, found_classes, drawn,
                   shown_original, shown_annotated, info>>

\* The same call within the second in which an earlier file's button was
\* created: the element id is already on the page, Streamlit raises
\* StreamlitDuplicateElementId, and nothing catches it.
DownloadRaises ==
    /\ pc = "download"
    /\ \E t \in ClockReadings :
          /\ ButtonId(FileName(t)) \in button_ids
          /\ now' = t
    /\ pc' = "crashed"
    /\ error' = "StreamlitDuplicateElementId"
    /\ UNCHANGED <<names, threshold, n, i, file, heap, image, img_np, results,
                   annotated_img, found_classes, drawn, shown_original,
                   shown_annotated, info, download, rendered, button_ids>>

Next ==
    \/ BeginResults
    \/ NoUpload
    \/ OpenImage
    \/ OpenRaises
    \/ Detect
    \/ Annotate
    \/ AnnotateRaises
    \/ Display
    \/ TumorInformation
    \/ Download
    \/ DownloadRaises

Spec == Init /\ [][Next]_vars

(* ------------------------- claim vocabulary --------------------------- *)

Range(s) == {s[k] : k \in DOMAIN s}

\* annotate_and_extract has returned for the current file.
Returned == annotated_img # 0

\* The `if found_classes:` block of the current file has run.
InfoShown == Returned /\ (pc = "download" \/ download # NoArtifact)

\* The current file's iteration has run to its end.
IterationDone == download # NoArtifact

\* Every reordering of a sequence.
Reorderings(s) ==
    {[k \in 1..Len(s) |-> s[f[k]]] : f \in Permutations(1..Len(s))}

\* The categories annotate_and_extract collects from a detection sequence,
\* or "raised".
FoundOf(nm, dets) ==
    LET r == AnnotateBody(nm, [h |-> 0, w |-> 0, px |-> <<>>], dets)
    IN  IF r.raised THEN "raised" ELSE r.found

\* str.strip() for the space character.
RECURSIVE Trim(_)
Trim(s) ==
    IF s = <<>> THEN s
    ELSE IF Head(s) = " " THEN Trim(Tail(s))
    ELSE IF s[Len(s)] = " " THEN Trim(SubSeq(s, 1, Len(s) - 1))
    ELSE s

\* Code-point order of the characters that occur in names.
CodeOrder == <<" ">> \o UpperAZ \o <<"_">> \o LowerAZ

CodeRank(c) == CHOOSE k \in 1..Len(CodeOrder) : CodeOrder[k] = c

\* s < t in Python's str order.
RECURSIVE StrLess(_, _)
StrLess(s, t) ==
    IF t = <<>> THEN FALSE
    ELSE IF s = <<>> THEN TRUE
    ELSE IF Head(s) # Head(t) THEN CodeRank(Head(s)) < CodeRank(Head(t))
    ELSE StrLess(Tail(s), Tail(t))

\* The positions of the detections whose class id the label table lacks.
Malformed == {k \in 1..Len(results) : results[k].cls \notin DOMAIN names}

(* ------------------------------ claims -------------------------------- *)

\* C1: when exactly one detection of the sequence carries a class id that
\* is no key of the label table, annotate_and_extract does not raise: it
\* skips that detection, returns the categories of all the others and draws
\* their boxes.
C1_MalformedDetectionSkipped ==
    (/\ Cardinality(Malformed) = 1
     /\ Len(results) >= 2
     /\ (Returned \/ (pc = "crashed" /\ error = "KeyError")))
    => /\ pc # "crashed"
       /\ Range(found_classes) =
             {lower(names[results[k].cls]) : k \in (1..Len(results)) \ Malformed}
       /\ Len(drawn) = Len(results) - 1

\* C2: a failure while processing one file never aborts the batch: when the
\* script has ended, every file of the upload has either had its results put
\* on the page or is the one whose failure is reported.
C2_FailureDoesNotAbortBatch ==
    pc \in {"done", "crashed"}
    => \A k \in 1..n : k \in rendered \/ (k = i + 1 /\ error # "")

\* C3: the set of categories annotate_and_extract returns does not depend
\* on the order of the detections: every reordering of the sequence it was
\* called on gives the same set. (Stated where the call has just returned;
\* neither results nor found_classes is assigned again in the iteration.)
C3_CategorySetOrderIndependent ==
    (Returned /\ pc = "display")
    => \A p \in Reorderings(results) :
          FoundOf(names, p) = Range(found_classes)

C3_Witness ==
    /\ Returned
    /\ pc = "display"
    /\ Len(results) >= 2
    /\ results[1].cls # results[2].cls
    /\ Cardinality(Range(found_classes)) >= 2

\* C4: the returned list of categories is in lexicographic order, whatever
\* the order of the detections.
C4_CategoriesSorted ==
    Returned => \A k \in 1..(Len(found_classes) - 1) :
                    StrLess(found_classes[k], found_classes[k + 1])

\* C5: the dedup key of a category is its label-table name lower-cased and
\* trimmed: the returned categories are exactly the trimmed lower-case names
\* of the detections, so names differing in case or surrounding whitespace
\* collapse to one category.
C5_KeyLowerCasedAndTrimmed ==
    Returned => Range(found_classes) =
                   {Trim(lower(names[results[k].cls])) : k \in 1..Len(results)}

\* C6: annotation never mutates its input: after annotate_and_extract has
\* returned, img_np holds the decoded pixels it was called with, the
\* annotated image is another buffer of the same dimensions, and the original
\* put on the page is unmarked.
C6_InputNotMutated ==
    Returned =>
       /\ heap[img_np] = ConvertRGB(file)
       /\ heap[img_np] = heap[image]
       /\ annotated_img # img_np
       /\ annotated_img # image
       /\ heap[annotated_img].h = heap[img_np].h
       /\ heap[annotated_img].w = heap[img_np].w
       /\ DOMAIN heap[annotated_img].px = DOMAIN heap[img_np].px
       /\ (shown_original # NoPicture
              => shown_original = Shown(ConvertRGB(file)))

C6_Witness ==
    /\ Returned
    /\ drawn # <<>>
    /\ heap[annotated_img].px # heap[img_np].px
    /\ shown_original # NoPicture
    /\ shown_annotated # shown_original

\* C7: the origin of every label drawn lies on the canvas: it is above the
\* box's top edge when that position is on the canvas, and below the top
\* edge otherwise, so its y-coordinate is never negative.
C7_LabelOriginOnCanvas ==
    Returned =>
       \A k \in 1..Len(drawn) :
          LET top == drawn[k].rect[2]
              y   == drawn[k].org[2]
          IN  /\ y >= 0
              /\ y < heap[annotated_img].h
              /\ (top - LabelOffset >= 0 => y = top - LabelOffset)
              /\ (top - LabelOffset < 0 => y > top)

\* C8: for an empty detection sequence the pipeline produces a well-formed
\* empty result without error: the annotated image is pixel-identical to
\* the input, the category list is empty, nothing is drawn, no tumor
\* information is emitted, and the download artifact is still produced for
\* that file.
C8_EmptyDetections ==
    (file.ok /\ results = <<>> /\ pc \notin {"detect", "annotate"}) =>
       /\ pc # "crashed"
       /\ error = ""
       /\ Returned
       /\ heap[annotated_img] = ConvertRGB(file)
       /\ found_classes = <<>>
       /\ drawn = <<>>
       /\ (pc # "display" => shown_annotated = Shown(ConvertRGB(file)))
       /\ (pc \notin {"display", "info"} => info = <<>>)
       /\ (pc \notin {"display", "info", "download"}
              => /\ download # NoArtifact
                 /\ download.format = "jpg"
                 /\ download.h = file.h
                 /\ download.w = file.w
                 /\ i \in rendered)

\* C9: description lookup is total. For every category of the found list
\* exactly one text is emitted; it is the TUMOR_INFO entry when the
\* normalized (lower-cased, trimmed) category is a key of the table, and
\* otherwise "{Title-cased category}: Additional information will be added
\* soon."
C9_DescriptionTotal ==
    InfoShown =>
       /\ Len(info) = (IF found_classes = <<>> THEN 0 ELSE Len(found_classes) + 1)
       /\ \A k \in 1..Len(found_classes) :
             LET category == Trim(lower(found_classes[k]))
             IN  info[k + 1] =
                    IF category \in DOMAIN TUMOR_INFO
                    THEN <<TUMOR_INFO[category]>>
                    ELSE title(category) \o
                         <<": Additional information will be added soon.">>

\* C10: the bytes offered for download encode the picture that is shown:
\* decoding the artifact gives, pixel for pixel and channel for channel, the
\* annotated image on the page, as save_image's conversion would.
C10_DownloadMatchesDisplay ==
    IterationDone =>
       /\ download.rgb = shown_annotated.rgb
       /\ download = save_image(heap[annotated_img])

=============================================================================
